---- MODULE Spec2Model ----
(***************************************************************************)
(* Five9 agent-state poller (src/app.py).                                  *)
(*                                                                         *)
(* One /poll request is a sequence of remote calls: setSessionParameters,  *)
(* getStatistics, a bulk insert into the snapshot table and a delete of    *)
(* the snapshots older than 48 hours.  Several requests may be served at   *)
(* the same time; they share nothing but the snapshot table.               *)
(*                                                                         *)
(* Time is counted in seconds.  Text is a TLA+ string, except the text of  *)
(* the "State Since" cell and of an HTTP error body, which are sequences   *)
(* of one-character strings because the program looks inside them.         *)
(***************************************************************************)
EXTENDS Integers, Sequences, FiniteSets, TLC

(***************************************************************************)
(* Bounds of the model.                                                    *)
(***************************************************************************)
NumProcs == 2      \* /poll requests of one behaviour; they may overlap
MaxTicks == 1      \* seconds that pass in one behaviour
OldSpan  == 2      \* the rows found in the table at the start were written
                   \* at seconds 1..OldSpan + 1
MaxRows  == 3      \* rows elements of a getStatistics document

(***************************************************************************)
(* Program constants.                                                      *)
(***************************************************************************)
FIVE9_TZ_OFFSET_HOURS == -8
RetentionHours == 48
ExcerptLen == 500

Retention == RetentionHours * 60 * 60
\* the clock at the start: a row written at second 0 has just expired
StartTime == Retention + 1
MaxTime   == StartTime + MaxTicks

Procs == 1..NumProcs

Min(a, b) == IF a <= b THEN a ELSE b

(***************************************************************************)
(* Text of the "State Since" cell: strptime / timedelta / strftime.        *)
(***************************************************************************)
DigitChars == <<"0", "1", "2", "3", "4", "5", "6", "7", "8", "9">>
Digits     == {DigitChars[i] : i \in 1..10}
Whitespace == {" ", "\t"}

DigitVal(c) == (CHOOSE i \in 1..10 : DigitChars[i] = c) - 1

IsDigitAt(s, i) == i >= 1 /\ i <= Len(s) /\ s[i] \in Digits
IsCharAt(s, i, c) == i >= 1 /\ i <= Len(s) /\ s[i] = c

\* length of the run of digits of s that starts at position i
RECURSIVE DigitRun(_, _)
DigitRun(s, i) == IF IsDigitAt(s, i) THEN 1 + DigitRun(s, i + 1) ELSE 0

\* length of the run of whitespace of s that starts at position i
RECURSIVE SpaceRun(_, _)
SpaceRun(s, i) ==
    IF i >= 1 /\ i <= Len(s) /\ s[i] \in Whitespace
    THEN 1 + SpaceRun(s, i + 1) ELSE 0

\* value of the n digits of s that start at position i
RECURSIVE Number(_, _, _)
Number(s, i, n) ==
    IF n = 0 THEN 0
    ELSE 10 * Number(s, i, n - 1) + DigitVal(s[i + n - 1])

IsLeap(y) == (y % 4 = 0 /\ y % 100 # 0) \/ y % 400 = 0

DaysInMonth(y, m) ==
    IF m = 2 THEN (IF IsLeap(y) THEN 29 ELSE 28)
    ELSE IF m \in {4, 6, 9, 11} THEN 30 ELSE 31

NoTime == [ok |-> FALSE, y |-> 0, mo |-> 0, d |-> 0, h |-> 0, mi |-> 0, s |-> 0]

\* datetime.strptime(s, "%Y-%m-%d %H:%M:%S"): ok = FALSE stands for ValueError
Strptime(s) ==
    LET yOk  == \A i \in 1..4 : IsDigitAt(s, i)
        mAt  == 6
        mLen == DigitRun(s, mAt)
        dSp  == IF IsCharAt(s, mAt + mLen + 1, " ") THEN 1 ELSE 0
        dAt  == mAt + mLen + 1 + dSp
        dLen == DigitRun(s, dAt)
        wAt  == dAt + dLen
        wLen == SpaceRun(s, wAt)
        hAt  == wAt + wLen
        hLen == DigitRun(s, hAt)
        iAt  == hAt + hLen + 1
        iLen == DigitRun(s, iAt)
        sAt  == iAt + iLen + 1
        sLen == DigitRun(s, sAt)
        shape ==
            /\ yOk
            /\ IsCharAt(s, 5, "-")
            /\ mLen \in {1, 2}
            /\ IsCharAt(s, mAt + mLen, "-")
            /\ dLen \in (IF dSp = 1 THEN {1} ELSE {1, 2})
            /\ wLen >= 1
            /\ hLen \in {1, 2}
            /\ IsCharAt(s, hAt + hLen, ":")
            /\ iLen \in {1, 2}
            /\ IsCharAt(s, iAt + iLen, ":")
            /\ sLen \in {1, 2}
            /\ sAt + sLen = Len(s) + 1
    IN  IF ~shape THEN NoTime
        ELSE LET y  == Number(s, 1, 4)
                 mo == Number(s, mAt, mLen)
                 d  == Number(s, dAt, dLen)
                 h  == Number(s, hAt, hLen)
                 mi == Number(s, iAt, iLen)
                 se == Number(s, sAt, sLen)
             IN  IF /\ y >= 1
                    /\ mo \in 1..12
                    /\ d >= 1 /\ d <= DaysInMonth(y, mo)
                    /\ h <= 23 /\ mi <= 59 /\ se <= 59
                 THEN [ok |-> TRUE, y |-> y, mo |-> mo, d |-> d,
                       h |-> h, mi |-> mi, s |-> se]
                 ELSE NoTime

\* naive - timedelta(hours = off), for an offset of less than a day west of
\* UTC; ok = FALSE stands for OverflowError (date value out of range)
ShiftHours(t, off) ==
    LET hh   == t.h - off
        roll == hh >= 24
        last == t.d = DaysInMonth(t.y, t.mo)
        d2   == IF ~roll THEN t.d ELSE IF last THEN 1 ELSE t.d + 1
        mo2  == IF roll /\ last THEN (IF t.mo = 12 THEN 1 ELSE t.mo + 1) ELSE t.mo
        y2   == IF roll /\ last /\ t.mo = 12 THEN t.y + 1 ELSE t.y
    IN  [ok |-> y2 <= 9999, y |-> y2, mo |-> mo2, d |-> d2,
         h |-> IF roll THEN hh - 24 ELSE hh, mi |-> t.mi, s |-> t.s]

TwoDigits(n) == <<DigitChars[(n \div 10) + 1], DigitChars[(n % 10) + 1]>>

\* decimal digits of n without padding (glibc %Y does not pad the year)
RECURSIVE Decimal(_)
Decimal(n) ==
    IF n < 10 THEN <<DigitChars[n + 1]>>
    ELSE Decimal(n \div 10) \o <<DigitChars[(n % 10) + 1]>>

\* utc_dt.strftime("%Y-%m-%d %H:%M:%S")
Strftime(t) ==
    Decimal(t.y) \o <<"-">> \o TwoDigits(t.mo) \o <<"-">> \o TwoDigits(t.d)
        \o <<" ">> \o TwoDigits(t.h) \o <<":">> \o TwoDigits(t.mi)
        \o <<":">> \o TwoDigits(t.s)

\* lines 108-116: the value of state_since_utc for a raw "State Since";
\* raises = TRUE when an exception other than ValueError leaves the function
Normalize(raw) ==
    IF raw = <<>> THEN [raises |-> FALSE, text |-> <<>>]
    ELSE LET naive == Strptime(raw)
         IN  IF ~naive.ok THEN [raises |-> FALSE, text |-> raw]
             ELSE LET utc == ShiftHours(naive, FIVE9_TZ_OFFSET_HOURS)
                  IN  IF ~utc.ok THEN [raises |-> TRUE, text |-> <<>>]
                      ELSE [raises |-> FALSE, text |-> Strftime(utc)]

(***************************************************************************)
(* five9_get_agent_states: the parsed getStatistics document.              *)
(*                                                                         *)
(* A document is [wellformed, columns, rows]: columns is the first         *)
(* columns/values element ([present, names]) and rows the sequence of rows *)
(* elements, each [hasValues, values].                                     *)
(***************************************************************************)
\* dict(zip(columns, values)): a later duplicate of a column name wins
Zip(columns, values) ==
    LET n == Min(Len(columns), Len(values))
    IN  [c \in {columns[i] : i \in 1..n} |->
            values[CHOOSE i \in 1..n :
                      columns[i] = c /\ \A j \in 1..n : columns[j] = c => j <= i]]

\* a parser that makes an agent without fields of a rows element without
\* values
RECURSIVE ParseRows_keepEmpty(_, _)
ParseRows_keepEmpty(columns, rows) ==
    IF rows = <<>> THEN <<>>
    ELSE <<Zip(columns, IF Head(rows).hasValues THEN Head(rows).values ELSE <<>>)>>
            \o ParseRows_keepEmpty(columns, Tail(rows))

\* lines 86-93: one agent per rows element that has a values child
RECURSIVE ParseRows(_, _)
ParseRows(columns, rows) ==
    IF rows = <<>> THEN <<>>
    ELSE IF ~Head(rows).hasValues THEN ParseRows(columns, Tail(rows))
    ELSE <<Zip(columns, Head(rows).values)>> \o ParseRows(columns, Tail(rows))

NoError == [msg |-> "None"]

IsError(err) == err # NoError

\* a parser that takes a document without columns for a document without
\* agents
ParseDocument_lenient(doc) ==
    [agents |-> IF doc.columns.present
                THEN ParseRows(doc.columns.names, doc.rows) ELSE <<>>,
     err |-> NoError]

\* a parser that takes a document without rows for an error
ParseDocument_needsRows(doc) ==
    IF ~doc.columns.present
    THEN [agents |-> <<>>, err |-> [msg |-> "No columns found in response"]]
    ELSE IF doc.rows = <<>>
    THEN [agents |-> <<>>, err |-> [msg |-> "No rows found in response"]]
    ELSE [agents |-> ParseRows(doc.columns.names, doc.rows), err |-> NoError]

\* lines 73-95, for a well-formed document
ParseDocument(doc) ==
    IF ~doc.columns.present
    THEN [agents |-> <<>>, err |-> [msg |-> "No columns found in response"]]
    ELSE [agents |-> ParseRows(doc.columns.names, doc.rows), err |-> NoError]

\* resp.text[:500]
Excerpt(text) == SubSeq(text, 1, Min(ExcerptLen, Len(text)))

\* line 71
Five9Error(status, text) ==
    [msg |-> "Five9 returned", status |-> status, excerpt |-> Excerpt(text)]

\* line 148
SupabaseError(status, text) ==
    [msg |-> "Supabase error", status |-> status, excerpt |-> Excerpt(text)]

(***************************************************************************)
(* write_to_supabase, lines 102-130: the rows of one snapshot.             *)
(***************************************************************************)
\* a.get(key, default)
Get(a, key, default) == IF key \in DOMAIN a THEN a[key] ELSE default

\* line 105 with a default: an agent without State is skipped too
IsLoggedOut_orMissing(a) == "State" \notin DOMAIN a \/ a["State"] = "Logged Out"

\* line 105; a.get("State") is None, not "Logged Out", when State is absent
IsLoggedOut(a) == "State" \in DOMAIN a /\ a["State"] = "Logged Out"

\* lines 118-130
MakeRow(a, snapshot_ts) ==
    [snapshot_ts        |-> snapshot_ts,
     username           |-> Get(a, "Username", ""),
     full_name          |-> Get(a, "Full Name", ""),
     state              |-> Get(a, "State", ""),
     reason_code        |-> Get(a, "Reason Code", ""),
     state_since        |-> Get(a, "State Since", <<>>),
     state_since_utc    |-> Normalize(Get(a, "State Since", <<>>)).text,
     state_duration     |-> Get(a, "State Duration", ""),
     campaign_name      |-> Get(a, "Campaign Name", ""),
     call_type          |-> Get(a, "Call Type", ""),
     media_availability |-> Get(a, "Media Availability", "")]

\* the loop with the timestamp taken again for every row
RECURSIVE BuildRows_perRow(_, _)
BuildRows_perRow(agents, snapshot_ts) ==
    IF agents = <<>> THEN <<>>
    ELSE IF IsLoggedOut(Head(agents))
    THEN BuildRows_perRow(Tail(agents), snapshot_ts)
    ELSE <<MakeRow(Head(agents), snapshot_ts)>>
             \o BuildRows_perRow(Tail(agents), snapshot_ts + 1)

\* lines 102-130: the loop over the agents
RECURSIVE BuildRows(_, _)
BuildRows(agents, snapshot_ts) ==
    IF agents = <<>> THEN <<>>
    ELSE IF IsLoggedOut(Head(agents)) THEN BuildRows(Tail(agents), snapshot_ts)
    ELSE <<MakeRow(Head(agents), snapshot_ts)>>
             \o BuildRows(Tail(agents), snapshot_ts)

\* the loop is left by an exception when a retained agent's State Since
\* cannot be shifted
BuildRaises(agents) ==
    \E i \in 1..Len(agents) :
        /\ ~IsLoggedOut(agents[i])
        /\ Normalize(Get(agents[i], "State Since", <<>>)).raises

(***************************************************************************)
(* poll, lines 181-204: retention and the JSON answers.                    *)
(***************************************************************************)
\* line 183 with the retention window forgotten
Cutoff_now(t) == t

\* line 183, in seconds
Cutoff(t) == t - Retention

\* the filter lte in place of lt
Expired_inclusive(table, cutoff) == {r \in table : r.row.snapshot_ts <= cutoff}

\* a delete without the filter on snapshot_ts
Expired_all(table, cutoff) == table

\* the rows selected by snapshot_ts=lt.{cutoff}
Expired(table, cutoff) == {r \in table : r.row.snapshot_ts < cutoff}

\* lines 169, 174, 179
Failure(err) == [ok |-> FALSE, error |-> err]

\* lines 197-204 with the number of rows reported as the number of agents
Success_kept(total, written, deleted_count, ts, elapsed) ==
    [ok             |-> TRUE,
     agents_total   |-> written,
     agents_written |-> written,
     purged         |-> deleted_count,
     snapshot_ts    |-> ts,
     elapsed_sec    |-> elapsed]

\* lines 197-204
Success(total, written, deleted_count, ts, elapsed) ==
    [ok             |-> TRUE,
     agents_total   |-> total,
     agents_written |-> written,
     purged         |-> deleted_count,
     snapshot_ts    |-> ts,
     elapsed_sec    |-> elapsed]

NoOutcome == [pending |-> TRUE]

\* the answer of the framework when an exception leaves poll
Unhandled(exception) == [exception |-> exception]

(***************************************************************************)
(* The answers of the two remote services.                                 *)
(***************************************************************************)
T_morning == <<"2", "0", "2", "4", "-", "0", "1", "-", "1", "5", " ",
               "1", "0", ":", "0", "0", ":", "0", "0">>
T_evening == <<"2", "0", "2", "4", "-", "0", "2", "-", "2", "9", " ",
               "2", "0", ":", "3", "0", ":", "0", "5">>
T_unknown == <<"n", "/", "a">>
T_last    == <<"9", "9", "9", "9", "-", "1", "2", "-", "3", "1", " ",
               "1", "6", ":", "0", "0", ":", "0", "0">>

Columns3 == <<"Username", "State", "State Since">>
Columns2 == <<"Username", "State">>
Columns1 == <<"Username">>

Values(v) == [hasValues |-> TRUE, values |-> v]
NoValues  == [hasValues |-> FALSE, values |-> <<>>]

Document(names, rows) ==
    [wellformed |-> TRUE, columns |-> [present |-> TRUE, names |-> names],
     rows |-> rows]
Undeclared(rows) ==
    [wellformed |-> TRUE, columns |-> [present |-> FALSE, names |-> <<>>],
     rows |-> rows]
Malformed ==
    [wellformed |-> FALSE, columns |-> [present |-> FALSE, names |-> <<>>],
     rows |-> <<>>]

Alice == Values(<<"alice", "Ready", T_morning>>)
Bob   == Values(<<"bob", "Logged Out", T_evening>>)
Carol == Values(<<"carol", "On Call", T_unknown>>)
Dave  == Values(<<"dave">>)
Eve   == Values(<<"eve", "Ready", T_last>>)

\* the documents of the behaviours with overlapping requests
Documents ==
    { Document(Columns3, <<Alice, Bob, Carol>>),
      Document(Columns3, <<Bob>>) }

\* the documents of the behaviours with one request
RowNodes == {Alice, Bob, Carol, Dave, Eve, NoValues}
RowSeqs  == UNION {[1..n -> RowNodes] : n \in 0..MaxRows}
AllDocuments ==
    {Document(names, rows) : names \in {Columns3, Columns2, Columns1},
                             rows \in RowSeqs}
        \cup {Undeclared(rows) : rows \in RowSeqs}
        \cup {Malformed}

ShortBody == <<"d", "e", "n", "i", "e", "d">>
LongBody  == [i \in 1..(ExcerptLen + 1) |-> "x"]

TimedOut == [timeout |-> TRUE, status |-> 0, text |-> <<>>, doc |-> Malformed,
             applied |-> FALSE]

Answer(status, text, doc, applied) ==
    [timeout |-> FALSE, status |-> status, text |-> text, doc |-> doc,
     applied |-> applied]

\* All the answers: for the behaviours with one request.
\* setSessionParameters: the body of the answer is not looked at
SessionAnswers ==
    {Answer(200, <<>>, Malformed, FALSE), Answer(500, <<>>, Malformed, FALSE),
     TimedOut}

StatisticsAnswers ==
    {Answer(200, <<>>, doc, FALSE) : doc \in AllDocuments}
        \cup {Answer(500, LongBody, Malformed, FALSE),
              Answer(401, ShortBody, Malformed, FALSE)}
        \cup {TimedOut}

\* a request that timed out may or may not have been carried out
InsertAnswers ==
    {Answer(200, <<>>, Malformed, TRUE), Answer(201, <<>>, Malformed, TRUE),
     Answer(409, ShortBody, Malformed, FALSE),
     TimedOut, [TimedOut EXCEPT !.applied = TRUE]}

DeleteAnswers ==
    {Answer(200, <<>>, Malformed, TRUE), Answer(500, ShortBody, Malformed, FALSE),
     TimedOut, [TimedOut EXCEPT !.applied = TRUE]}

\* The answers for the behaviours with overlapping requests: a success and a
\* non-success status of every call, and the timeouts that change the table.
SomeSessionAnswers ==
    {Answer(200, <<>>, Malformed, FALSE), Answer(500, <<>>, Malformed, FALSE)}

SomeStatisticsAnswers ==
    {Answer(200, <<>>, doc, FALSE) : doc \in Documents}
        \cup {Answer(500, LongBody, Malformed, FALSE)}

SomeInsertAnswers ==
    {Answer(201, <<>>, Malformed, TRUE),
     Answer(409, ShortBody, Malformed, FALSE),
     [TimedOut EXCEPT !.applied = TRUE]}

SomeDeleteAnswers ==
    {Answer(200, <<>>, Malformed, TRUE), Answer(500, ShortBody, Malformed, FALSE),
     [TimedOut EXCEPT !.applied = TRUE]}

\* line 61 with the status ignored
SessionOk_always(resp) == TRUE

\* line 61
SessionOk(resp) == resp.status = 200

\* line 70 with the test of the status lost
FetchRejected_never(resp) == FALSE

\* line 70
FetchRejected(resp) == resp.status # 200

\* an insert taken for refused unless it answered 201 Created
InsertRejected_unlessCreated(resp) == resp.status # 201

\* line 147
InsertRejected(resp) == resp.status \notin {200, 201}

\* line 193
DeleteOk(resp) == resp.status = 200

\* what the service did with a call: "ok" for a success status, "status" for
\* any other status, "timeout" when no answer came within the 30 seconds
Result(resp, success) ==
    IF resp.timeout THEN "timeout"
    ELSE IF resp.status \in success THEN "ok" ELSE "status"

\* an insert that replaces the rows already stored for the same agents
Inserted_upsert(table, new) ==
    {r \in table : \A n \in new : n.row.username # r.row.username} \cup new

\* the table after a bulk insert of new rows
Inserted(table, new) == table \cup new

(***************************************************************************)
(* State.                                                                  *)
(***************************************************************************)
VARIABLES
    now,          \* the wall clock, in seconds
    store,        \* the table five9_agent_snapshots: records [inv, pos, row]
    pc,           \* per request: where it is in poll
    start,        \* line 164
    snapshot_ts,  \* line 165
    agents,       \* line 172
    count,        \* line 177
    cutoff,       \* line 183
    purged,       \* line 182, 194
    outcome,      \* the JSON body that poll returns
    http,         \* the HTTP status that poll returns
    calls,        \* history: the remote calls issued by the request, in order
    received,     \* history: the document of the getStatistics answer
    written,      \* history: per request, the rows that its insert added
    deleted       \* history: the rows deleted so far: [rec, at, by]

vars == <<now, store, pc, start, snapshot_ts, agents, count, cutoff, purged,
          outcome, http, calls, received, written, deleted>>

Terminal == {"done", "failed", "crashed"}

\* the rows that earlier requests left in the table
OldAgent == [c \in {"Username", "State"} |->
                IF c = "Username" THEN "zoe" ELSE "Ready"]
OldRows == {[inv |-> 0, pos |-> t, row |-> MakeRow(OldAgent, t)] :
               t \in 1..(OldSpan + 1)}

\* a row that has expired at the start
StaleRow == [inv |-> 0, pos |-> 0, row |-> MakeRow(OldAgent, 0)]

Init ==
    /\ now = StartTime
    /\ store = OldRows
    /\ pc = [p \in Procs |-> "idle"]
    /\ start = [p \in Procs |-> 0]
    /\ snapshot_ts = [p \in Procs |-> 0]
    /\ agents = [p \in Procs |-> <<>>]
    /\ count = [p \in Procs |-> 0]
    /\ cutoff = [p \in Procs |-> 0]
    /\ purged = [p \in Procs |-> 0]
    /\ outcome = [p \in Procs |-> NoOutcome]
    /\ http = [p \in Procs |-> 0]
    /\ calls = [p \in Procs |-> <<>>]
    /\ received = [p \in Procs |-> [got |-> FALSE, doc |-> Malformed]]
    /\ written = [p \in Procs |-> {}]
    /\ deleted = {}

\* the same with a table that holds an expired row
InitStale ==
    /\ now = StartTime
    /\ store = OldRows \cup {StaleRow}
    /\ pc = [p \in Procs |-> "idle"]
    /\ start = [p \in Procs |-> 0]
    /\ snapshot_ts = [p \in Procs |-> 0]
    /\ agents = [p \in Procs |-> <<>>]
    /\ count = [p \in Procs |-> 0]
    /\ cutoff = [p \in Procs |-> 0]
    /\ purged = [p \in Procs |-> 0]
    /\ outcome = [p \in Procs |-> NoOutcome]
    /\ http = [p \in Procs |-> 0]
    /\ calls = [p \in Procs |-> <<>>]
    /\ received = [p \in Procs |-> [got |-> FALSE, doc |-> Malformed]]
    /\ written = [p \in Procs |-> {}]
    /\ deleted = {}

Called(p, name, result) ==
    calls' = [calls EXCEPT ![p] = Append(@, [call |-> name, result |-> result])]

\* return jsonify(body), status
Return(p, label, body, status) ==
    /\ pc' = [pc EXCEPT ![p] = label]
    /\ outcome' = [outcome EXCEPT ![p] = body]
    /\ http' = [http EXCEPT ![p] = status]

\* lines 162-165: request p arrives; requests are numbered as they arrive
poll(p) ==
    /\ pc[p] = "idle"
    /\ \A q \in Procs : q < p => pc[q] # "idle"
    /\ pc' = [pc EXCEPT ![p] = "session"]
    /\ start' = [start EXCEPT ![p] = now]
    /\ snapshot_ts' = [snapshot_ts EXCEPT ![p] = now]
    /\ UNCHANGED <<now, store, agents, count, cutoff, purged, outcome, http,
                   calls, received, written, deleted>>

\* a set-session call that is issued again after a non-success status
five9_set_session_retry(p, answers) ==
    /\ pc[p] = "session"
    /\ \E resp \in answers :
        /\ Called(p, "setSessionParameters", Result(resp, {200}))
        /\ IF resp.timeout
           THEN Return(p, "crashed", Unhandled("Timeout"), 500)
           ELSE IF resp.status = 200
           THEN /\ pc' = [pc EXCEPT ![p] = "fetch"]
                /\ UNCHANGED <<outcome, http>>
           ELSE UNCHANGED <<pc, outcome, http>>
    /\ UNCHANGED <<now, store, start, snapshot_ts, agents, count, cutoff,
                   purged, received, written, deleted>>

\* lines 54-61 and 168-169
five9_set_session(p, answers) ==
    /\ pc[p] = "session"
    /\ \E resp \in answers :
        /\ Called(p, "setSessionParameters", Result(resp, {200}))
        /\ IF resp.timeout
           THEN Return(p, "crashed", Unhandled("Timeout"), 500)
           ELSE IF SessionOk(resp)
           THEN /\ pc' = [pc EXCEPT ![p] = "fetch"]
                /\ UNCHANGED <<outcome, http>>
           ELSE Return(p, "failed",
                       Failure([msg |-> "Failed to set Five9 session"]), 500)
    /\ UNCHANGED <<now, store, start, snapshot_ts, agents, count, cutoff,
                   purged, received, written, deleted>>

\* lines 64-95 and 172-174
five9_get_agent_states(p, answers) ==
    /\ pc[p] = "fetch"
    /\ \E resp \in answers :
        /\ Called(p, "getStatistics", Result(resp, {200}))
        /\ received' = [received EXCEPT ![p] =
               IF ~resp.timeout /\ resp.status = 200
               THEN [got |-> TRUE, doc |-> resp.doc] ELSE @]
        /\ IF resp.timeout
           THEN /\ Return(p, "crashed", Unhandled("Timeout"), 500)
                /\ UNCHANGED agents
           ELSE IF FetchRejected(resp)
           THEN /\ Return(p, "failed",
                          Failure(Five9Error(resp.status, resp.text)), 500)
                /\ UNCHANGED agents
           ELSE IF ~resp.doc.wellformed
           THEN /\ Return(p, "crashed", Unhandled("ParseError"), 500)
                /\ UNCHANGED agents
           ELSE LET parsed == ParseDocument(resp.doc)
                IN  IF IsError(parsed.err)
                    THEN /\ Return(p, "failed", Failure(parsed.err), 500)
                         /\ UNCHANGED agents
                    ELSE /\ pc' = [pc EXCEPT ![p] = "write"]
                         /\ agents' = [agents EXCEPT ![p] = parsed.agents]
                         /\ UNCHANGED <<outcome, http>>
    /\ UNCHANGED <<now, store, start, snapshot_ts, count, cutoff, purged,
                   written, deleted>>

\* an insert that stores the first row of the batch only
Stored_first(p, rows) ==
    {[inv |-> p, pos |-> i, row |-> rows[i]] : i \in 1..Min(1, Len(rows))}

\* the rows of request p as the table holds them
Stored(p, rows) ==
    {[inv |-> p, pos |-> i, row |-> rows[i]] : i \in 1..Len(rows)}

\* lines 100-150 and 177-179
write_to_supabase(p, answers) ==
    /\ pc[p] = "write"
    /\ LET rows == BuildRows(agents[p], snapshot_ts[p])
       IN  IF BuildRaises(agents[p])
           THEN /\ Return(p, "crashed", Unhandled("OverflowError"), 500)
                /\ UNCHANGED <<store, count, calls, written>>
           ELSE IF rows = <<>>
           THEN /\ pc' = [pc EXCEPT ![p] = "purge"]
                /\ count' = [count EXCEPT ![p] = 0]
                /\ UNCHANGED <<store, outcome, http, calls, written>>
           ELSE \E resp \in answers :
                /\ Called(p, "insert", Result(resp, {200, 201}))
                /\ IF resp.applied
                   THEN /\ store' = Inserted(store, Stored(p, rows))
                        /\ written' = [written EXCEPT ![p] = Stored(p, rows)]
                   ELSE UNCHANGED <<store, written>>
                /\ IF resp.timeout
                   THEN /\ Return(p, "crashed", Unhandled("Timeout"), 500)
                        /\ UNCHANGED count
                   ELSE IF InsertRejected(resp)
                   THEN /\ Return(p, "failed",
                              Failure(SupabaseError(resp.status, resp.text)), 500)
                        /\ UNCHANGED count
                   ELSE /\ pc' = [pc EXCEPT ![p] = "purge"]
                        /\ count' = [count EXCEPT ![p] = Len(rows)]
                        /\ UNCHANGED <<outcome, http>>
    /\ UNCHANGED <<now, start, snapshot_ts, agents, cutoff, purged, received,
                   deleted>>

\* a failed delete treated like the failure of any other step
Finish_fatal(p, resp, n) ==
    IF DeleteOk(resp)
    THEN Return(p, "done",
                Success(Len(agents[p]), count[p], n, snapshot_ts[p],
                        now - start[p]), 200)
    ELSE Return(p, "failed",
                Failure(SupabaseError(resp.status, resp.text)), 500)

\* a failed delete reported in a field of the answer
Finish_surfaced(p, resp, n) ==
    Return(p, "done",
           IF DeleteOk(resp)
           THEN Success(Len(agents[p]), count[p], n, snapshot_ts[p],
                        now - start[p])
           ELSE [ok |-> TRUE, agents_total |-> Len(agents[p]),
                 agents_written |-> count[p], purged |-> n,
                 snapshot_ts |-> snapshot_ts[p], elapsed_sec |-> now - start[p],
                 purge_error |-> SupabaseError(resp.status, resp.text)],
           200)

\* lines 196-204: the answer after the delete
Finish(p, resp, n) ==
    Return(p, "done",
           Success(Len(agents[p]), count[p], n, snapshot_ts[p], now - start[p]),
           200)

\* lines 181-204
purge(p, answers) ==
    /\ pc[p] = "purge"
    /\ \E resp \in answers :
        LET gone == IF resp.applied THEN Expired(store, Cutoff(now)) ELSE {}
            n    == IF ~resp.timeout /\ DeleteOk(resp)
                    THEN Cardinality(gone) ELSE 0
        IN  /\ Called(p, "delete", Result(resp, {200}))
            /\ cutoff' = [cutoff EXCEPT ![p] = Cutoff(now)]
            /\ store' = store \ gone
            /\ deleted' = deleted \cup
                   {[rec |-> r, at |-> now, by |-> p] : r \in gone}
            /\ IF resp.timeout
               THEN /\ Return(p, "crashed", Unhandled("Timeout"), 500)
                    /\ UNCHANGED purged
               ELSE /\ purged' = [purged EXCEPT ![p] = n]
                    /\ Finish(p, resp, n)
    /\ UNCHANGED <<start, now, snapshot_ts, agents, count, received, written>>

\* a second passes
Tick ==
    /\ now < MaxTime
    /\ now' = now + 1
    /\ UNCHANGED <<store, pc, start, snapshot_ts, agents, count, cutoff,
                   purged, outcome, http, calls, received, written, deleted>>

\* overlapping requests
Next ==
    \/ \E p \in Procs : poll(p)
    \/ \E p \in Procs : five9_set_session(p, SomeSessionAnswers)
    \/ \E p \in Procs : five9_get_agent_states(p, SomeStatisticsAnswers)
    \/ \E p \in Procs : write_to_supabase(p, SomeInsertAnswers)
    \/ \E p \in Procs : purge(p, SomeDeleteAnswers)
    \/ Tick

Spec == Init /\ [][Next]_vars

\* overlapping requests on a table that holds an expired row
SpecStale == InitStale /\ [][Next]_vars

\* one request, any answer
NextOne ==
    \/ poll(1)
    \/ five9_set_session(1, SessionAnswers)
    \/ five9_get_agent_states(1, StatisticsAnswers)
    \/ write_to_supabase(1, InsertAnswers)
    \/ purge(1, DeleteAnswers)
    \/ Tick

SpecOne == Init /\ [][NextOne]_vars

(***************************************************************************)
(* Vocabulary of the properties.                                           *)
(***************************************************************************)
CallOrder == <<"setSessionParameters", "getStatistics", "insert", "delete">>

Rank(name) == CHOOSE k \in 1..Len(CallOrder) : CallOrder[k] = name

Issued(p, name) == \E i \in 1..Len(calls[p]) : calls[p][i].call = name

\* the result of the call of that name, for a request that issued it
ResultOf(p, name) ==
    (CHOOSE c \in {calls[p][i] : i \in 1..Len(calls[p])} : c.call = name).result

Got(p, name, result) == Issued(p, name) /\ ResultOf(p, name) = result

DeletedBy(p) == {d \in deleted : d.by = p}

LoggedOutCount(as) ==
    Cardinality({i \in 1..Len(as) : Get(as[i], "State", "") = "Logged Out"})

SuccessKeys == {"ok", "agents_total", "agents_written", "purged",
                "snapshot_ts", "elapsed_sec"}

(***************************************************************************)
(* C1.  The remote calls of a request are issued in the order set-session, *)
(* get-statistics, insert, delete, each only after every earlier call      *)
(* returned a success status.  A request whose get-statistics call         *)
(* returned a non-success status ends failed with the Five9 error (status  *)
(* and an excerpt of at most 500 characters) and issued no insert and no   *)
(* delete; a request whose insert returned a non-success status ends       *)
(* failed with the Supabase error and issued no delete.  A failed answer   *)
(* has the fields ok and error only: one error, that of the failing step.  *)
(***************************************************************************)
C1_StepOrder ==
    \A p \in Procs :
        /\ \A i, j \in 1..Len(calls[p]) :
              i < j => /\ Rank(calls[p][i].call) < Rank(calls[p][j].call)
                       /\ calls[p][i].result = "ok"
        /\ Len(calls[p]) >= 1 => calls[p][1].call = "setSessionParameters"
        /\ Len(calls[p]) >= 2 => calls[p][2].call = "getStatistics"
        /\ Got(p, "getStatistics", "status") =>
              /\ pc[p] = "failed"
              /\ outcome[p].ok = FALSE
              /\ outcome[p].error.msg = "Five9 returned"
              /\ outcome[p].error.status # 200
              /\ Len(outcome[p].error.excerpt) <= ExcerptLen
              /\ ~Issued(p, "insert") /\ ~Issued(p, "delete")
              /\ written[p] = {} /\ DeletedBy(p) = {}
        /\ Got(p, "insert", "status") =>
              /\ pc[p] = "failed"
              /\ outcome[p].ok = FALSE
              /\ outcome[p].error.msg = "Supabase error"
              /\ outcome[p].error.status \notin {200, 201}
              /\ ~Issued(p, "delete")
              /\ DeletedBy(p) = {}
        /\ pc[p] = "failed" =>
              /\ DOMAIN outcome[p] = {"ok", "error"}
              /\ http[p] = 500
              /\ calls[p][Len(calls[p])].result = "ok" =>
                    outcome[p].error.msg = "No columns found in response"

\* a request failed at get-statistics with a body longer than the excerpt
C1_Witness ==
    \E p \in Procs :
        /\ Got(p, "setSessionParameters", "ok")
        /\ Got(p, "getStatistics", "status")
        /\ pc[p] = "failed"
        /\ Len(outcome[p].error.excerpt) = ExcerptLen

(***************************************************************************)
(* C2.  A request whose set-session call returned a non-success status     *)
(* ends failed, answers ok = false with the session error, and has issued  *)
(* no other call: no get-statistics, no insert, no delete.                 *)
(***************************************************************************)
C2_SessionFailure ==
    \A p \in Procs :
        Got(p, "setSessionParameters", "status") =>
            /\ pc[p] = "failed"
            /\ outcome[p] = Failure([msg |-> "Failed to set Five9 session"])
            /\ http[p] = 500
            /\ Len(calls[p]) = 1
            /\ agents[p] = <<>>
            /\ written[p] = {} /\ DeletedBy(p) = {}

C2_Witness ==
    \E p \in Procs :
        /\ Got(p, "setSessionParameters", "status")
        /\ outcome[p].ok = FALSE

(***************************************************************************)
(* C3.  A request whose session, fetch and write succeeded and whose       *)
(* delete returned a non-success status ends done: it answers ok = true    *)
(* with purged = 0 and the agents_total and agents_written of its write,   *)
(* and the rows it wrote are in the table.                                 *)
(***************************************************************************)
C3_PurgeFailureIsNotFatal ==
    \A p \in Procs :
        Got(p, "delete", "status") =>
            /\ pc[p] = "done"
            /\ outcome[p].ok = TRUE
            /\ outcome[p].purged = 0
            /\ outcome[p].agents_total = Len(agents[p])
            /\ outcome[p].agents_written = Cardinality(written[p])
            /\ written[p] \subseteq store
            /\ DeletedBy(p) = {}

\* the failed delete follows an insert of at least one row
C3_Witness ==
    \E p \in Procs :
        /\ Got(p, "delete", "status")
        /\ Got(p, "insert", "ok")
        /\ outcome[p].agents_written > 0
        /\ outcome[p].purged = 0

C5_PurgeBoundary ==
    \A p \in Procs :
        Got(p, "delete", "ok") =>
            /\ \A r \in store : r.row.snapshot_ts >= cutoff[p]
            /\ \A d \in DeletedBy(p) :
                  /\ cutoff[p] = d.at - Retention
                  /\ d.rec.row.snapshot_ts < d.at - Retention
                  /\ d.rec \notin store
            /\ purged[p] = Cardinality(DeletedBy(p))
            /\ pc[p] = "done" /\ outcome[p].purged = Cardinality(DeletedBy(p))

\* rows one second older than 48 hours, exactly 48 hours old and one second
\* younger: the first is removed, the other two are kept
C5_Witness ==
    \E p \in Procs :
        /\ Got(p, "delete", "ok")
        /\ \E d \in DeletedBy(p) : d.rec.row.snapshot_ts = cutoff[p] - 1
        /\ \E r \in store : r.row.snapshot_ts = cutoff[p]
        /\ \E r \in store : r.row.snapshot_ts = cutoff[p] + 1
        /\ outcome[p].purged = 1

(***************************************************************************)
(* C6.  The table holds only rows that a request wrote, as it wrote them;  *)
(* a row that was written is in the table or was removed by a delete at a  *)
(* time when it was more than 48 hours old; no request removes a row it    *)
(* wrote itself.                                                           *)
(***************************************************************************)
EverWritten == OldRows \cup UNION {written[p] : p \in Procs}

C6_RowLifecycle ==
    /\ store \subseteq EverWritten
    /\ \A r \in EverWritten : r \in store \/ \E d \in deleted : d.rec = r
    /\ \A r1, r2 \in store : (r1.inv = r2.inv /\ r1.pos = r2.pos) => r1 = r2
    /\ \A d \in deleted :
          /\ d.at - d.rec.row.snapshot_ts > Retention
          /\ d.rec.inv # d.by
          /\ d.rec \notin store

\* a request wrote rows and then removed old rows, its own rows staying,
\* while the clock moved during the request
C6_Witness ==
    \E p \in Procs :
        /\ Got(p, "insert", "ok") /\ Got(p, "delete", "ok")
        /\ written[p] # {} /\ written[p] \subseteq store
        /\ DeletedBy(p) # {}
        /\ \E d \in DeletedBy(p) : d.at > start[p]

(***************************************************************************)
(* C7.  Every row that a request wrote carries the time read at the start  *)
(* of the request, whatever the State Since of its agent and however much  *)
(* time passed before the write; the answer reports the same time.         *)
(***************************************************************************)
C7_OneSnapshotTs ==
    \A p \in Procs :
        /\ \A r \in written[p] : r.row.snapshot_ts = start[p]
        /\ pc[p] = "done" => outcome[p].snapshot_ts = start[p]

\* two rows of one request with different State Since, seen after the
\* clock moved
C7_Witness ==
    \E p \in Procs :
        /\ now > start[p]
        /\ \E r1, r2 \in written[p] :
              /\ r1.row.state_since # r2.row.state_since
              /\ r1.row.snapshot_ts = r2.row.snapshot_ts

(***************************************************************************)
(* C8.  With overlapping requests, every row of the table that request p   *)
(* wrote is one of the rows p built from its own agents and carries p's    *)
(* snapshot_ts, all rows of p carry the same snapshot_ts, and every row p  *)
(* wrote is in the table unless a delete removed it.                       *)
(***************************************************************************)
C8_OverlapKeepsBatches ==
    /\ \A r \in store :
          r.inv \in Procs => /\ r \in written[r.inv]
                             /\ r.row.snapshot_ts = snapshot_ts[r.inv]
    /\ \A p \in Procs :
          /\ \A r1, r2 \in written[p] : r1.row.snapshot_ts = r2.row.snapshot_ts
          /\ written[p] # {} =>
                written[p] = Stored(p, BuildRows(agents[p], snapshot_ts[p]))
          /\ \A r \in written[p] : r \in store \/ \E d \in deleted : d.rec = r

\* two requests in progress at once, started at different times, both with
\* their rows in the table
C8_Witness ==
    \E p, q \in Procs :
        /\ pc[p] = "purge" /\ pc[q] = "purge"
        /\ snapshot_ts[p] # snapshot_ts[q]
        /\ written[p] # {} /\ written[q] # {}
        /\ written[p] \cup written[q] \subseteq store

(***************************************************************************)
(* C9.  A request whose calls all succeeded answers ok = true with         *)
(* agents_total the number of agents parsed, agents_written the number of  *)
(* agents whose State is not "Logged Out", which is the number of rows it  *)
(* added to the table, and purged the number of rows its delete removed.   *)
(***************************************************************************)
C9_SuccessCounts ==
    \A p \in Procs :
        (pc[p] = "done" /\ Got(p, "delete", "ok")) =>
            /\ outcome[p].ok = TRUE /\ http[p] = 200
            /\ outcome[p].agents_total = Len(agents[p])
            /\ outcome[p].agents_written =
                  Len(agents[p]) - LoggedOutCount(agents[p])
            /\ outcome[p].agents_written = Cardinality(written[p])
            /\ outcome[p].purged = Cardinality(DeletedBy(p))

\* three agents, one of them logged out, and one stale row
C9_Witness ==
    \E p \in Procs :
        /\ pc[p] = "done" /\ Got(p, "delete", "ok")
        /\ outcome[p].agents_total = 3
        /\ outcome[p].agents_written = 2
        /\ outcome[p].purged = 1
        /\ outcome[p].ok = TRUE

(***************************************************************************)
(* C10.  The rows built from a sequence of agents are the agents whose     *)
(* State is not "Logged Out", agents without a State included, in the      *)
(* order of the agents: their number is the number of agents minus the     *)
(* number of logged-out agents, the k-th row is taken from the k-th such   *)
(* agent, and no row of the table has the state "Logged Out".              *)
(***************************************************************************)
Kept(as) == {i \in 1..Len(as) : Get(as[i], "State", "") # "Logged Out"}

NthKept(as, k) ==
    CHOOSE i \in Kept(as) : Cardinality({j \in Kept(as) : j <= i}) = k

C10_Projection ==
    /\ \A r \in store : r.row.state # "Logged Out"
    /\ \A p \in Procs :
          /\ pc[p] \in {"purge", "done"} =>
                count[p] = Len(agents[p]) - LoggedOutCount(agents[p])
          /\ written[p] # {} =>
                /\ Cardinality(written[p]) =
                      Len(agents[p]) - LoggedOutCount(agents[p])
                /\ \A r \in written[p] :
                      LET a == agents[p][NthKept(agents[p], r.pos)]
                      IN  /\ r.row.username = Get(a, "Username", "")
                          /\ r.row.state = Get(a, "State", "")
                          /\ r.row.state_since = Get(a, "State Since", <<>>)

\* a logged-out agent before an agent without State: the second is written
\* as the first row
C10_Witness ==
    \E p \in Procs :
        /\ Len(agents[p]) = 3
        /\ LoggedOutCount(agents[p]) = 1
        /\ "State" \notin DOMAIN agents[p][2]
        /\ \E r \in written[p] :
              r.pos = 1 /\ r.row.username = "dave" /\ r.row.state = ""

(***************************************************************************)
(* C11.  The write step is all or nothing.  A request whose agents leave   *)
(* at least one row issues exactly one insert, and the table then holds    *)
(* all the rows of the request (the insert was carried out) or none of     *)
(* them (it was rejected or lost).  A request whose agents leave no row    *)
(* issues no insert, counts 0 rows written without an error, goes on to    *)
(* the purge and, once the delete has answered, ends with ok = true.       *)
(***************************************************************************)
InsertCalls(p) == {i \in 1..Len(calls[p]) : calls[p][i].call = "insert"}

RowsOf(p) == {r \in store : r.inv = p}

KeptCount(p) == Len(agents[p]) - LoggedOutCount(agents[p])

C11_WriteAllOrNothing ==
    \A p \in Procs :
        /\ Cardinality(InsertCalls(p)) <= 1
        /\ Issued(p, "insert") => KeptCount(p) > 0
        /\ (KeptCount(p) > 0 /\ (pc[p] \in {"purge", "done"} \/ Issued(p, "delete")))
              => Cardinality(InsertCalls(p)) = 1
        /\ {r.pos : r \in RowsOf(p)} \in {{}, 1..KeptCount(p)}
        /\ Cardinality(RowsOf(p)) \in {0, KeptCount(p)}
        /\ Got(p, "insert", "ok") => Cardinality(RowsOf(p)) = KeptCount(p)
        /\ Got(p, "insert", "status") => RowsOf(p) = {}
        /\ (KeptCount(p) = 0 /\ (pc[p] \in {"purge", "done"} \/ Issued(p, "delete")))
              => /\ ~Issued(p, "insert")
                 /\ count[p] = 0
                 /\ RowsOf(p) = {}
                 /\ pc[p] # "failed"
        /\ (KeptCount(p) = 0 /\ Issued(p, "delete")
              /\ ResultOf(p, "delete") # "timeout")
              => /\ pc[p] = "done"
                 /\ outcome[p].ok = TRUE
                 /\ outcome[p].agents_written = 0
        /\ (pc[p] = "failed" /\ received[p].got /\ received[p].doc.wellformed
              /\ received[p].doc.columns.present)
              => Issued(p, "insert")

\* an insert of two rows or more that timed out after it was carried out
C11_Witness ==
    \E p \in Procs :
        /\ Got(p, "insert", "timeout")
        /\ KeptCount(p) >= 2
        /\ Cardinality(RowsOf(p)) = KeptCount(p)

(***************************************************************************)
(* C12.  Nothing is retried: a request issues the set-session call, the    *)
(* get-statistics call, the insert and the delete at most once each,       *)
(* whatever the result of the call was (a success status, another status   *)
(* or no answer in time), and it issues no other call.                     *)
(***************************************************************************)
CallsOf(p, name) == {i \in 1..Len(calls[p]) : calls[p][i].call = name}

C12_NoRetries ==
    \A p \in Procs :
        /\ \A i \in 1..Len(calls[p]) :
              \E k \in 1..Len(CallOrder) : calls[p][i].call = CallOrder[k]
        /\ \A k \in 1..Len(CallOrder) :
              Cardinality(CallsOf(p, CallOrder[k])) <= 1
        /\ \A i \in 1..Len(calls[p]) :
              calls[p][i].result # "ok" => i = Len(calls[p])

\* a request that went on to the end after a call of each kind, the last of
\* which was refused
C12_Witness ==
    \E p \in Procs :
        /\ pc[p] \in Terminal
        /\ Len(calls[p]) = Len(CallOrder)
        /\ calls[p][Len(CallOrder)].result = "status"

(***************************************************************************)
(* C13.  A call that got no answer within its 30 seconds is handled as a   *)
(* call that got a non-success status: the request ends, and it ends       *)
(* failed with ok = false and an error message when the call was the       *)
(* set-session call, the get-statistics call or the insert, and done with  *)
(* ok = true and purged = 0 when the call was the delete.                  *)
(***************************************************************************)
C13_TimeoutIsFailure ==
    \A p \in Procs :
        /\ (\E k \in 1..3 : Got(p, CallOrder[k], "timeout")) =>
              /\ pc[p] = "failed"
              /\ DOMAIN outcome[p] = {"ok", "error"}
              /\ outcome[p].ok = FALSE
              /\ http[p] = 500
        /\ Got(p, "delete", "timeout") =>
              /\ pc[p] = "done"
              /\ DOMAIN outcome[p] = SuccessKeys
              /\ outcome[p].ok = TRUE
              /\ outcome[p].purged = 0
              /\ http[p] = 200

(***************************************************************************)
(* C14.  A get-statistics answer with status 200 and a body that is not    *)
(* well-formed XML makes the request fail: it ends failed with ok = false  *)
(* and the parse error as its error message, and it issues neither the     *)
(* insert nor the delete.                                                  *)
(***************************************************************************)
C14_MalformedBodyIsError ==
    \A p \in Procs :
        (received[p].got /\ ~received[p].doc.wellformed) =>
            /\ pc[p] = "failed"
            /\ DOMAIN outcome[p] = {"ok", "error"}
            /\ outcome[p].ok = FALSE
            /\ IsError(outcome[p].error)
            /\ ~Issued(p, "insert")
            /\ ~Issued(p, "delete")

(***************************************************************************)
(* C15.  A well-formed get-statistics document without a columns           *)
(* declaration gives no agents and the error "No columns found in          *)
(* response", with or without rows elements in it; the request ends failed *)
(* with ok = false and that error, and issues neither the insert nor the   *)
(* delete.                                                                 *)
(***************************************************************************)
C15_NoColumns ==
    \A p \in Procs :
        (received[p].got /\ received[p].doc.wellformed
            /\ ~received[p].doc.columns.present) =>
            /\ pc[p] = "failed"
            /\ agents[p] = <<>>
            /\ outcome[p] =
                  [ok |-> FALSE, error |-> [msg |-> "No columns found in response"]]
            /\ http[p] = 500
            /\ ~Issued(p, "insert")
            /\ ~Issued(p, "delete")
            /\ RowsOf(p) = {} /\ deleted = {}

\* a document without columns that has rows elements, one of them with
\* values
C15_Witness ==
    \E p \in Procs :
        /\ received[p].got /\ received[p].doc.wellformed
        /\ ~received[p].doc.columns.present
        /\ \E i \in 1..Len(received[p].doc.rows) :
              received[p].doc.rows[i].hasValues
        /\ pc[p] = "failed"

(***************************************************************************)
(* C16.  The agents parsed from a document with a columns declaration are, *)
(* in the order of the document, one per rows element that has a values    *)
(* child.  The agent of a row maps the i-th column name to the i-th value  *)
(* of the row, for every i up to the smaller of the two lengths: a row     *)
(* with fewer values than columns has the first columns only, and a rows   *)
(* element without values gives no agent and changes no other agent.       *)
(***************************************************************************)
WithValues(rows) == {i \in 1..Len(rows) : rows[i].hasValues}

NthWithValues(rows, k) ==
    CHOOSE i \in WithValues(rows) :
        Cardinality({j \in WithValues(rows) : j <= i}) = k

C16_OneAgentPerRow ==
    \A p \in Procs :
        (received[p].got /\ received[p].doc.wellformed
            /\ received[p].doc.columns.present) =>
            LET names == received[p].doc.columns.names
                rows  == received[p].doc.rows
            IN  /\ Len(agents[p]) = Cardinality(WithValues(rows))
                /\ \A k \in 1..Len(agents[p]) :
                      LET values == rows[NthWithValues(rows, k)].values
                          n      == Min(Len(names), Len(values))
                      IN  /\ DOMAIN agents[p][k] = {names[i] : i \in 1..n}
                          /\ \A i \in 1..n : agents[p][k][names[i]] = values[i]

\* a rows element without values, then a row of one value, then a row of
\* three values, under three columns
C16_Witness ==
    \E p \in Procs :
        /\ received[p].got /\ received[p].doc.columns.present
        /\ Len(received[p].doc.columns.names) = 3
        /\ Len(received[p].doc.rows) = 3
        /\ ~received[p].doc.rows[1].hasValues
        /\ Len(received[p].doc.rows[2].values) = 1
        /\ Len(received[p].doc.rows[3].values) = 3
        /\ Len(agents[p]) = 2
        /\ DOMAIN agents[p][1] = {"Username"}
        /\ DOMAIN agents[p][2] = {"Username", "State", "State Since"}

(***************************************************************************)
(* C17.  A document with a columns declaration and no rows element parses  *)
(* to no agents and no error.  The request does not fail: it issues no     *)
(* insert, goes on to the delete and, once the delete has answered, ends   *)
(* done with ok = true, agents_total = 0 and agents_written = 0.           *)
(***************************************************************************)
C17_NoAgentsIsValid ==
    \A p \in Procs :
        (received[p].got /\ received[p].doc.wellformed
            /\ received[p].doc.columns.present
            /\ received[p].doc.rows = <<>>) =>
            /\ agents[p] = <<>>
            /\ pc[p] # "failed"
            /\ pc[p] = "crashed" => Got(p, "delete", "timeout")
            /\ ~Issued(p, "insert")
            /\ (Issued(p, "delete") /\ ResultOf(p, "delete") # "timeout") =>
                  /\ pc[p] = "done"
                  /\ http[p] = 200
                  /\ outcome[p].ok = TRUE
                  /\ outcome[p].agents_total = 0
                  /\ outcome[p].agents_written = 0

\* a request that got three columns and no rows and is done
C17_Witness ==
    \E p \in Procs :
        /\ received[p].got /\ received[p].doc.columns.present
        /\ Len(received[p].doc.columns.names) = 3
        /\ received[p].doc.rows = <<>>
        /\ pc[p] = "done"
        /\ outcome[p].ok = TRUE /\ outcome[p].agents_total = 0

(***************************************************************************)
(* C18.  Purges only shrink the table.  A step in which a request issues   *)
(* its delete adds no row and changes no row; it removes nothing when a    *)
(* delete that succeeded was issued at the same time before; and every row *)
(* that an earlier delete removed is older than the cutoff of this one, so *)
(* this delete would have removed it too.                                  *)
(***************************************************************************)
DeleteStep(p) ==
    /\ Len(calls'[p]) = Len(calls[p]) + 1
    /\ calls'[p][Len(calls'[p])].call = "delete"

PurgeShrinks ==
    \A p \in Procs :
        DeleteStep(p) =>
            /\ store' \subseteq store
            /\ \A q \in Procs \ {p} :
                  (Got(q, "delete", "ok") /\ cutoff[q] = cutoff'[p])
                      => store' = store
            /\ \A d \in deleted :
                  /\ d.at <= now
                  /\ d.rec.row.snapshot_ts < cutoff'[p]
            /\ \A q \in Procs \ {p} :
                  Issued(q, "delete") => cutoff[q] <= cutoff'[p]

C18_PurgeOnlyShrinks == [][PurgeShrinks]_vars

\* two deletes one second apart, each of which removed a row
C18_Witness ==
    \E p, q \in Procs :
        /\ Got(p, "delete", "ok") /\ Got(q, "delete", "ok")
        /\ cutoff[p] < cutoff[q]
        /\ DeletedBy(p) # {} /\ DeletedBy(q) # {}

(***************************************************************************)
(* C19.  The row of an agent holds the raw "State Since" text as           *)
(* state_since, and as state_since_utc the empty text for an empty raw     *)
(* text, the time 8 hours later in the form YYYY-MM-DD HH:MM:SS for a raw  *)
(* text of that form (the date moves on when the 8 hours pass midnight),   *)
(* and the raw text itself for any other raw text; building the row of an  *)
(* agent never ends by an exception.                                       *)
(***************************************************************************)
IsTimestamp(s) ==
    /\ Len(s) = 19
    /\ \A i \in {1, 2, 3, 4, 6, 7, 9, 10, 12, 13, 15, 16, 18, 19} : s[i] \in Digits
    /\ s[5] = "-" /\ s[8] = "-" /\ s[11] = " " /\ s[14] = ":" /\ s[17] = ":"
    /\ Number(s, 1, 4) >= 1
    /\ Number(s, 6, 2) \in 1..12
    /\ Number(s, 9, 2) \in 1..DaysInMonth(Number(s, 1, 4), Number(s, 6, 2))
    /\ Number(s, 12, 2) <= 23 /\ Number(s, 15, 2) <= 59 /\ Number(s, 18, 2) <= 59

RECURSIVE DaysBeforeMonth(_, _)
DaysBeforeMonth(y, m) ==
    IF m = 1 THEN 0 ELSE DaysBeforeMonth(y, m - 1) + DaysInMonth(y, m - 1)

\* the hours from 0001-01-01 00:00:00 to the hour of a timestamp
HoursOf(s) ==
    LET y == Number(s, 1, 4)
        before == 365 * (y - 1) + ((y - 1) \div 4) - ((y - 1) \div 100)
                      + ((y - 1) \div 400)
    IN  24 * (before + DaysBeforeMonth(y, Number(s, 6, 2)) + Number(s, 9, 2) - 1)
            + Number(s, 12, 2)

C19_NormalizeIsTotal ==
    \A p \in Procs :
        /\ outcome[p] # [exception |-> "OverflowError"]
        /\ \A r \in written[p] :
              LET raw == Get(agents[p][NthKept(agents[p], r.pos)],
                             "State Since", <<>>)
                  utc == r.row.state_since_utc
              IN  /\ r.row.state_since = raw
                  /\ raw = <<>> => utc = <<>>
                  /\ IsTimestamp(raw) =>
                        /\ IsTimestamp(utc)
                        /\ HoursOf(utc) = HoursOf(raw) - FIVE9_TZ_OFFSET_HOURS
                        /\ SubSeq(utc, 14, 19) = SubSeq(raw, 14, 19)
                  /\ ~IsTimestamp(raw) => utc = raw

(***************************************************************************)
(* C20.  A request that ends failed (the set-session call or the           *)
(* get-statistics call answered a non-success status, the document had no  *)
(* columns, or the insert answered a non-success status) leaves the table  *)
(* as it found it: no row of the request is in it and no row was removed   *)
(* from it, since a delete is issued only after the write step succeeded.  *)
(***************************************************************************)
C20_FailureLeavesStore ==
    \A p \in Procs :
        /\ pc[p] = "failed" =>
              /\ store = OldRows
              /\ RowsOf(p) = {} /\ written[p] = {}
              /\ deleted = {}
              /\ ~Issued(p, "delete")
              /\ \/ Got(p, "setSessionParameters", "status")
                 \/ Got(p, "getStatistics", "status")
                 \/ outcome[p].error = [msg |-> "No columns found in response"]
                 \/ Got(p, "insert", "status")
        /\ Issued(p, "delete") =>
              /\ pc[p] # "failed"
              /\ Got(p, "insert", "ok") \/ (~Issued(p, "insert") /\ count[p] = 0)

\* an insert of two rows that was refused
C20_Witness ==
    \E p \in Procs :
        /\ pc[p] = "failed"
        /\ Got(p, "insert", "status")
        /\ KeptCount(p) = 2
        /\ store = OldRows

====
